---- MODULE Spec2Model ----
(***************************************************************************)
(* Model of openapi3filter.ValidateResponse (kin-openapi): the response    *)
(* validation pipeline, one action per stage of the function, with the     *)
(* call context's cancellation as an environment action.                   *)
(*                                                                         *)
(* Go strings are sequences of byte values, so that sorting, header-name   *)
(* canonicalisation, %q quoting and substring tests are computed as the    *)
(* code computes them.                                                     *)
(***************************************************************************)
EXTENDS Integers, Sequences, FiniteSets, TLC

\* ------------------------------------------------------------------------
\* Bound of the model
\* ------------------------------------------------------------------------

\* Largest number of bytes a failing body stream delivers before its error.
MaxFailAt == 1

\* ------------------------------------------------------------------------
\* String literals of the source, as byte sequences
\* ------------------------------------------------------------------------

\* "Content-Type"
headerCT == <<67, 111, 110, 116, 101, 110, 116, 45, 84, 121, 112, 101>>
\* "default"
KeyDefault == <<100, 101, 102, 97, 117, 108, 116>>
\* "*/*"
MimeAny == <<42, 47, 42>>
\* "status is not supported"
ReasonStatus == <<115, 116, 97, 116, 117, 115, 32, 105, 115, 32, 110, 111, 116, 32, 115, 117, 112, 112, 111, 114, 116, 101, 100>>
\* "response has not been resolved"
ReasonUnresolved == <<114, 101, 115, 112, 111, 110, 115, 101, 32, 104, 97, 115, 32, 110, 111, 116, 32, 98, 101, 101, 110, 32, 114, 101, 115, 111, 108, 118, 101, 100>>
\* "response header "
ReasonHeaderPrefix == <<114, 101, 115, 112, 111, 110, 115, 101, 32, 104, 101, 97, 100, 101, 114, 32>>
\* " missing"
ReasonMissingSuffix == <<32, 109, 105, 115, 115, 105, 110, 103>>
\* " doesn't match the schema"
ReasonHeaderSchemaSuffix == <<32, 100, 111, 101, 115, 110, 39, 116, 32, 109, 97, 116, 99, 104, 32, 116, 104, 101, 32, 115, 99, 104, 101, 109, 97>>
\* "response header Content-Type has unexpected value: "
ReasonCTPrefix == <<114, 101, 115, 112, 111, 110, 115, 101, 32, 104, 101, 97, 100, 101, 114, 32, 67, 111, 110, 116, 101, 110, 116, 45, 84, 121, 112, 101, 32, 104, 97, 115, 32, 117, 110, 101, 120, 112, 101, 99, 116, 101, 100, 32, 118, 97, 108, 117, 101, 58, 32>>
\* "failed to read response body"
ReasonRead == <<102, 97, 105, 108, 101, 100, 32, 116, 111, 32, 114, 101, 97, 100, 32, 114, 101, 115, 112, 111, 110, 115, 101, 32, 98, 111, 100, 121>>
\* "failed to decode response body"
ReasonDecode == <<102, 97, 105, 108, 101, 100, 32, 116, 111, 32, 100, 101, 99, 111, 100, 101, 32, 114, 101, 115, 112, 111, 110, 115, 101, 32, 98, 111, 100, 121>>
\* "response body doesn't match schema"
ReasonBodySchema == <<114, 101, 115, 112, 111, 110, 115, 101, 32, 98, 111, 100, 121, 32, 100, 111, 101, 115, 110, 39, 116, 32, 109, 97, 116, 99, 104, 32, 115, 99, 104, 101, 109, 97>>

\* The status codes the eligibility switch names.
StatusNotModified == 304
StatusPermanentRedirect == 308
StatusTemporaryRedirect == 307
StatusMovedPermanently == 301

\* ------------------------------------------------------------------------
\* Library functions the pipeline calls, on byte sequences
\* ------------------------------------------------------------------------

\* The nil pointer / nil interface / nil error.
Nil == [nil |-> TRUE]

\* Ordering of Go strings (bytewise lexicographic), as sort.Strings uses it.
StrLess(a, b) ==
    \E i \in 1..(Len(b)) :
        /\ \A j \in 1..(i - 1) : j <= Len(a) /\ a[j] = b[j]
        /\ \/ i = Len(a) + 1
           \/ i <= Len(a) /\ a[i] < b[i]

RECURSIVE SortStrings(_)
\* sort.Strings over the collected keys: the ascending sequence of a set.
SortStrings(S) ==
    IF S = {} THEN <<>>
    ELSE LET m == CHOOSE x \in S : \A y \in S \ {x} : StrLess(x, y)
         IN <<m>> \o SortStrings(S \ {m})

\* strings.Contains.
Contains(s, sub) ==
    \E i \in 0..(Len(s) - Len(sub)) : SubSeq(s, i + 1, i + Len(sub)) = sub

\* strings.IndexByte: 0-based index of the first c in s, -1 when there is none.
IndexByte(s, c) ==
    IF \E i \in 1..Len(s) : s[i] = c
    THEN (CHOOSE i \in 1..Len(s) : s[i] = c /\ \A j \in 1..(i - 1) : s[j] # c) - 1
    ELSE -1

RECURSIVE FormatInt(_)
\* strconv.FormatInt(n, 10) for n >= 0.
FormatInt(n) ==
    IF n < 10 THEN <<48 + n>> ELSE FormatInt(n \div 10) \o <<48 + (n % 10)>>

RECURSIVE EscapeQuoted(_)
\* The inside of a %q rendering: '"' and '\' get a backslash (printable ASCII).
EscapeQuoted(s) ==
    IF s = <<>> THEN <<>>
    ELSE (IF Head(s) \in {34, 92} THEN <<92, Head(s)>> ELSE <<Head(s)>>)
         \o EscapeQuoted(Tail(s))

\* fmt's %q verb on a string: strconv.Quote.
Quote(s) == <<34>> \o EscapeQuoted(s) \o <<34>>

IsSpace(c) == c \in {9, 10, 11, 12, 13, 32}

RECURSIVE TrimLeft(_)
TrimLeft(s) == IF s # <<>> /\ IsSpace(Head(s)) THEN TrimLeft(Tail(s)) ELSE s

RECURSIVE TrimRight(_)
TrimRight(s) ==
    IF s # <<>> /\ IsSpace(s[Len(s)]) THEN TrimRight(SubSeq(s, 1, Len(s) - 1)) ELSE s

\* strings.TrimSpace.
TrimSpace(s) == TrimRight(TrimLeft(s))

\* The bytes a header field name may hold (RFC 7230 token).
IsTokenByte(c) ==
    \/ c \in 48..57
    \/ c \in 65..90
    \/ c \in 97..122
    \/ c \in {33, 35, 36, 37, 38, 39, 42, 43, 45, 46, 94, 95, 96, 124, 126}

\* textproto.CanonicalMIMEHeaderKey: first letter and letters after '-' upper
\* case, the others lower case; a name with a non-token byte is left as it is.
CanonicalMIMEHeaderKey(k) ==
    IF \E i \in 1..Len(k) : ~IsTokenByte(k[i]) THEN k
    ELSE [i \in 1..Len(k) |->
            LET upper == (i = 1) \/ (k[i - 1] = 45)
            IN IF upper /\ k[i] \in 97..122 THEN k[i] - 32
               ELSE IF ~upper /\ k[i] \in 65..90 THEN k[i] + 32
               ELSE k[i]]

\* http.Header.Get: the value stored under the canonical form of the name,
\* "" when there is none.
HeaderGet(header, k) ==
    LET ck == CanonicalMIMEHeaderKey(k)
    IN IF ck \in DOMAIN header THEN header[ck] ELSE <<>>

\* ------------------------------------------------------------------------
\* Collaborators of the pipeline that live in other files of the repository
\* ------------------------------------------------------------------------

\* The process-wide options used when the input carries none: every switch off.
DefaultOptions ==
    [IncludeResponseStatus |-> FALSE, ExcludeResponseBody |-> FALSE,
     MultiError |-> FALSE, customSchemaErrorFunc |-> Nil]

\* openapi3.Responses.Get: the entry under the decimal rendering of the status.
ResponsesGet(responses, status) ==
    IF FormatInt(status) \in DOMAIN responses THEN responses[FormatInt(status)] ELSE Nil

\* openapi3.Responses.Default: the entry under "default".
ResponsesDefault(responses) ==
    IF KeyDefault \in DOMAIN responses THEN responses[KeyDefault] ELSE Nil

\* A map lookup that yields nil for a missing key.
Lookup(m, k) == IF k \in DOMAIN m THEN m[k] ELSE Nil

\* openapi3.Content.Get: the entry for the media type as given, else without
\* its parameters, else for its type with any subtype, else for "*/*".
ContentGet(content, mime) ==
    LET i == IndexByte(mime, 59)
        bare == IF i > 0 THEN SubSeq(mime, 1, i) ELSE mime
        j == IndexByte(bare, 47)
        wild == IF j > 0 THEN SubSeq(bare, 1, j + 1) \o <<42>> ELSE bare
    IN IF Lookup(content, mime) # Nil THEN content[mime]
       ELSE IF Lookup(content, bare) # Nil THEN content[bare]
       ELSE IF Lookup(content, wild) # Nil THEN content[wild]
       ELSE Lookup(content, MimeAny)

\* The schema engine's leaf violations of a value, in the order it finds them.
Leaves(schema, v) ==
    IF v.type # schema.Type THEN <<"type">>
    ELSE IF v.type # "string" THEN <<>>
    ELSE (IF Len(v.s) < schema.MinLength THEN <<"minLength">> ELSE <<>>)
         \o (IF v.s = <<>> \/ v.s[1] # schema.Prefix THEN <<"pattern">> ELSE <<>>)

\* openapi3.Schema.VisitJSON: no error (the empty sequence) for a matching
\* value; otherwise the first leaf violation, or every one of them when the
\* MultiErrors option is given.
VisitJSON(schema, v, options) ==
    LET leaves == Leaves(schema, v)
    IN IF leaves = <<>> THEN <<>>
       ELSE IF "MultiErrors" \in options THEN leaves
       ELSE <<leaves[1]>>

\* A Go string handed to the schema engine.
StringValue(s) == [type |-> "string", s |-> s]

\* decodeBody: the decoded value of the bytes, or a decode error. The bytes
\* are read as a JSON document: a string without escapes or an unsigned number.
\* The headers, the schema and the encoding lookup the call also passes do not
\* change the outcome for such documents and are left out.
decodeBody(bytes) ==
    LET n == Len(bytes)
    IN IF n >= 2 /\ bytes[1] = 34 /\ bytes[n] = 34
          /\ \A i \in 2..(n - 1) : bytes[i] \notin {34, 92}
       THEN [err |-> FALSE, value |-> StringValue(SubSeq(bytes, 2, n - 1))]
       ELSE IF n >= 1 /\ \A i \in 1..n : bytes[i] \in 48..57
       THEN [err |-> FALSE, value |-> [type |-> "integer", s |-> bytes]]
       ELSE [err |-> TRUE, value |-> Nil]

\* ResponseValidationInput.SetBodyBytes: the body becomes a fresh reader over
\* the given bytes.
SetBodyBytes(in, bytes) == [in EXCEPT !.Body = [bytes |-> bytes]]

\* ------------------------------------------------------------------------
\* State of one call ValidateResponse(ctx, input)
\* ------------------------------------------------------------------------

VARIABLES
    ctxDone,      \* the call context has been cancelled
    input,        \* *ResponseValidationInput: Method, Status, Options,
                  \* Responses (of the route's operation), Header, Body
    stream,       \* the body stream the input arrived with
    pc,           \* the stage the call is about to run, "done" once it returned
    options,      \* local: the options in force
    response,     \* local: the resolved response definition
    opts,         \* local: the schema validation options
    contentType,  \* local: the matched media type entry
    body,         \* local: the acquired body stream
    data,         \* local: the bytes read from the body
    value,        \* local: the decoded body
    err           \* the returned error, Nil for success

vars == <<ctxDone, input, stream, pc, options, response, opts, contentType,
          body, data, value, err>>

locals == <<options, response, opts, contentType, body, data, value>>

\* input.Body when it is the stream the input arrived with.
TheStream == [stream |-> TRUE]

\* &ResponseError{Input: input, Reason: reason, Err: cause}; a missing cause
\* is the empty sequence, a cause is the sequence of its leaf errors.
ResponseError(reason, cause) == [Reason |-> reason, Err |-> cause]

\* ioutil.ReadAll on a stream: the bytes from its position to its end, or to
\* the point where it fails, and whether it failed. A closed stream fails.
ReadAll(st) ==
    IF st.closed THEN [data |-> <<>>, err |-> TRUE, pos |-> st.pos]
    ELSE IF st.failAt >= st.pos
    THEN [data |-> SubSeq(st.data, st.pos + 1, st.failAt), err |-> TRUE,
          pos |-> st.failAt]
    ELSE [data |-> SubSeq(st.data, st.pos + 1, Len(st.data)), err |-> FALSE,
          pos |-> Len(st.data)]

\* SkipsValidation with 308 Permanent Redirect left out of the status list.
SkipsValidationWithout308(method, status) ==
    \/ method = "HEAD"
    \/ status \in {StatusNotModified, StatusTemporaryRedirect, StatusMovedPermanently}

\* The method and status switches: no validation for HEAD requests and for
\* the four listed status codes.
SkipsValidation(method, status) ==
    \/ method = "HEAD"
    \/ status \in {StatusNotModified, StatusPermanentRedirect,
                   StatusTemporaryRedirect, StatusMovedPermanently}

\* ResponseRefFor with the default entry looked up before the exact one.
ResponseRefDefaultFirst(responses, status) ==
    IF ResponsesDefault(responses) # Nil
    THEN ResponsesDefault(responses)
    ELSE ResponsesGet(responses, status)

\* The entry for the status, the default entry when there is none.
ResponseRefFor(responses, status) ==
    IF ResponsesGet(responses, status) # Nil
    THEN ResponsesGet(responses, status)
    ELSE ResponsesDefault(responses)

\* The options given to the schema engine for header and body checks.
SchemaOpts(o) ==
    (IF o.MultiError THEN {"MultiErrors"} ELSE {})
    \cup (IF o.customSchemaErrorFunc # Nil
          THEN {"SetSchemaErrorMessageCustomizer"} ELSE {})

RECURSIVE Descending(_)
\* The descending sequence of a set of strings.
Descending(S) ==
    IF S = {} THEN <<>>
    ELSE LET m == CHOOSE x \in S : \A y \in S \ {x} : StrLess(y, x)
         IN <<m>> \o Descending(S \ {m})

\* HeaderOrder with the collected names left unsorted: an order the map
\* iteration may produce, here the descending one.
HeaderOrderUnsorted(resp) == Descending({k \in DOMAIN resp.Headers : k # headerCT})

\* The declared header names to check, in checking order.
HeaderOrder(resp) == SortStrings({k \in DOMAIN resp.Headers : k # headerCT})

\* HeaderVisitOpts without the multi-error option.
HeaderVisitOptsSingle(o) == o \ {"MultiErrors"}

\* The options the schema engine gets for a header value.
HeaderVisitOpts(o) == o

\* CheckHeader with a missing header accepted whether required or not.
CheckHeaderIgnoringRequired(resp, header, o, k) ==
    LET s == resp.Headers[k]
        h == HeaderGet(header, k)
    IN IF h = <<>>
       THEN Nil
       ELSE LET e == VisitJSON(s.Value.Schema.Value, StringValue(h), o)
            IN IF e # <<>>
               THEN ResponseError(ReasonHeaderPrefix \o Quote(k) \o ReasonHeaderSchemaSuffix, e)
               ELSE Nil

\* The check of one declared header: Nil, or the error to return.
CheckHeader(resp, header, o, k) ==
    LET s == resp.Headers[k]
        h == HeaderGet(header, k)
    IN IF h = <<>>
       THEN IF s.Value.Required
            THEN ResponseError(ReasonHeaderPrefix \o Quote(k) \o ReasonMissingSuffix, <<>>)
            ELSE Nil
       ELSE LET e == VisitJSON(s.Value.Schema.Value, StringValue(h), HeaderVisitOpts(o))
            IN IF e # <<>>
               THEN ResponseError(ReasonHeaderPrefix \o Quote(k) \o ReasonHeaderSchemaSuffix, e)
               ELSE Nil

RECURSIVE CheckHeaders(_, _, _, _)
\* The loop over the declared headers: the first error, Nil when none fails.
CheckHeaders(resp, header, o, ks) ==
    IF ks = <<>> THEN Nil
    ELSE IF CheckHeader(resp, header, o, Head(ks)) # Nil
    THEN CheckHeader(resp, header, o, Head(ks))
    ELSE CheckHeaders(resp, header, o, Tail(ks))

\* getSchemaIdentifier: the trimmed reference, else the trimmed title.
getSchemaIdentifier(schema) ==
    LET id == IF schema # Nil THEN TrimSpace(schema.Ref) ELSE <<>>
    IN IF id = <<>> /\ schema.Value # Nil THEN TrimSpace(schema.Value.Title) ELSE id

\* prependSpaceIfNeeded.
prependSpaceIfNeeded(v) == IF Len(v) > 0 THEN <<32>> \o v ELSE v

\* Resolve with the undocumented-status switch read the wrong way round.
ResolveFlagInverted(responses, status, o) ==
    LET responseRef ==
            IF ResponsesGet(responses, status) # Nil
            THEN ResponsesGet(responses, status)
            ELSE ResponsesDefault(responses)
    IN IF Cardinality(DOMAIN responses) = 0
       THEN [ret |-> TRUE, err |-> Nil]
       ELSE IF responseRef = Nil
       THEN IF o.IncludeResponseStatus
            THEN [ret |-> TRUE, err |-> Nil]
            ELSE [ret |-> TRUE, err |-> ResponseError(ReasonStatus, <<>>)]
       ELSE IF responseRef.Value = Nil
       THEN [ret |-> TRUE, err |-> ResponseError(ReasonUnresolved, <<>>)]
       ELSE [ret |-> FALSE, response |-> responseRef.Value]

\* Resolve with a dangling reference skipped instead of reported.
ResolveSkipsDangling(responses, status, o) ==
    LET responseRef ==
            IF ResponsesGet(responses, status) # Nil
            THEN ResponsesGet(responses, status)
            ELSE ResponsesDefault(responses)
    IN IF Cardinality(DOMAIN responses) = 0
       THEN [ret |-> TRUE, err |-> Nil]
       ELSE IF responseRef = Nil
       THEN IF ~o.IncludeResponseStatus
            THEN [ret |-> TRUE, err |-> Nil]
            ELSE [ret |-> TRUE, err |-> ResponseError(ReasonStatus, <<>>)]
       ELSE IF responseRef.Value = Nil
       THEN [ret |-> TRUE, err |-> Nil]
       ELSE [ret |-> FALSE, response |-> responseRef.Value]

\* The response definition resolver: either the value to return, or the
\* resolved response definition to go on with.
Resolve(responses, status, o) ==
    LET responseRef == ResponseRefFor(responses, status)
    IN IF Cardinality(DOMAIN responses) = 0
       THEN [ret |-> TRUE, err |-> Nil]
       ELSE IF responseRef = Nil
       THEN IF ~o.IncludeResponseStatus
            THEN [ret |-> TRUE, err |-> Nil]
            ELSE [ret |-> TRUE, err |-> ResponseError(ReasonStatus, <<>>)]
       ELSE IF responseRef.Value = Nil
       THEN [ret |-> TRUE, err |-> ResponseError(ReasonUnresolved, <<>>)]
       ELSE [ret |-> FALSE, response |-> responseRef.Value]

\* Negotiate without the check of the body-exclusion switch.
NegotiateIgnoringExclude(resp, header, o) ==
    LET content == resp.Content
        inputMIME == HeaderGet(header, headerCT)
        ct == ContentGet(content, inputMIME)
    IN IF Cardinality(DOMAIN content) = 0
       THEN [ret |-> TRUE, err |-> Nil]
       ELSE IF ct = Nil
       THEN [ret |-> TRUE, err |-> ResponseError(ReasonCTPrefix \o Quote(inputMIME), <<>>)]
       ELSE IF ct.Schema = Nil
       THEN [ret |-> TRUE, err |-> Nil]
       ELSE [ret |-> FALSE, contentType |-> ct]

\* Negotiate with the observed Content-Type printed as it is, unquoted.
NegotiateUnquoted(resp, header, o) ==
    LET content == resp.Content
        inputMIME == HeaderGet(header, headerCT)
        ct == ContentGet(content, inputMIME)
    IN IF o.ExcludeResponseBody
       THEN [ret |-> TRUE, err |-> Nil]
       ELSE IF Cardinality(DOMAIN content) = 0 \/ o.ExcludeResponseBody
       THEN [ret |-> TRUE, err |-> Nil]
       ELSE IF ct = Nil
       THEN [ret |-> TRUE, err |-> ResponseError(ReasonCTPrefix \o inputMIME, <<>>)]
       ELSE IF ct.Schema = Nil
       THEN [ret |-> TRUE, err |-> Nil]
       ELSE [ret |-> FALSE, contentType |-> ct]

\* The content negotiation: either the value to return, or the matched media
\* type entry whose schema the body is checked against.
Negotiate(resp, header, o) ==
    LET content == resp.Content
        inputMIME == HeaderGet(header, headerCT)
        ct == ContentGet(content, inputMIME)
    IN IF o.ExcludeResponseBody
       THEN [ret |-> TRUE, err |-> Nil]
       ELSE IF Cardinality(DOMAIN content) = 0 \/ o.ExcludeResponseBody
       THEN [ret |-> TRUE, err |-> Nil]
       ELSE IF ct = Nil
       THEN [ret |-> TRUE, err |-> ResponseError(ReasonCTPrefix \o Quote(inputMIME), <<>>)]
       ELSE IF ct.Schema = Nil
       THEN [ret |-> TRUE, err |-> Nil]
       ELSE [ret |-> FALSE, contentType |-> ct]

\* Return with the body stream closed on the success path only.
ReturnClosingOnSuccess(e, b, st) ==
    /\ pc' = "done"
    /\ err' = e
    /\ stream' = IF b = Nil \/ e # Nil THEN st ELSE [st EXCEPT !.closed = TRUE]

\* A return statement: the error is handed back, and the deferred Close of
\* the acquired body stream b (Nil when none was acquired) runs on stream st.
Return(e, b, st) ==
    /\ pc' = "done"
    /\ err' = e
    /\ stream' = IF b = Nil THEN st ELSE [st EXCEPT !.closed = TRUE]

\* ------------------------------------------------------------------------
\* The stages of ValidateResponse
\* ------------------------------------------------------------------------

EligibilityFilter ==
    /\ pc = "eligibility"
    /\ IF SkipsValidation(input.Method, input.Status)
       THEN Return(Nil, body, stream)
       ELSE pc' = "resolve" /\ UNCHANGED <<err, stream>>
    /\ UNCHANGED <<ctxDone, input, locals>>

ResolveResponse ==
    LET o == IF input.Options = Nil THEN DefaultOptions ELSE input.Options
        r == Resolve(input.Responses, input.Status, o)
    IN /\ pc = "resolve"
       /\ options' = o
       /\ IF r.ret
          THEN Return(r.err, body, stream) /\ UNCHANGED <<response, opts>>
          ELSE /\ response' = r.response
               /\ opts' = SchemaOpts(o)
               /\ pc' = "headers"
               /\ UNCHANGED <<err, stream>>
       /\ UNCHANGED <<ctxDone, input, contentType, body, data, value>>

\* The message of context.Canceled, "context canceled".
ContextCanceled == <<99, 111, 110, 116, 101, 120, 116, 32, 99, 97, 110, 99, 101, 108, 101, 100>>

\* ValidateHeaders with a check of the call context at the stage boundary.
ValidateHeadersHonouringCtx ==
    LET e == CheckHeaders(response, input.Header, opts, HeaderOrder(response))
    IN /\ pc = "headers"
       /\ IF ctxDone
          THEN Return(ResponseError(ContextCanceled, <<>>), body, stream)
          ELSE IF e # Nil
          THEN Return(e, body, stream)
          ELSE pc' = "content" /\ UNCHANGED <<err, stream>>
       /\ UNCHANGED <<ctxDone, input, locals>>

ValidateHeaders ==
    LET e == CheckHeaders(response, input.Header, opts, HeaderOrder(response))
    IN /\ pc = "headers"
       /\ IF e # Nil
          THEN Return(e, body, stream)
          ELSE pc' = "content" /\ UNCHANGED <<err, stream>>
       /\ UNCHANGED <<ctxDone, input, locals>>

NegotiateContent ==
    LET r == Negotiate(response, input.Header, options)
    IN /\ pc = "content"
       /\ IF r.ret
          THEN Return(r.err, body, stream) /\ UNCHANGED contentType
          ELSE /\ contentType' = r.contentType
               /\ pc' = "read"
               /\ UNCHANGED <<err, stream>>
       /\ UNCHANGED <<ctxDone, input, options, response, opts, body, data, value>>

\* The body field after the read: cleared before the read, and repopulated
\* from the bytes only when the read succeeded.
BodyAfterRead(in, r) ==
    IF r.err THEN [in EXCEPT !.Body = Nil]
    ELSE SetBodyBytes([in EXCEPT !.Body = Nil], r.data)

ReadBody ==
    LET r == ReadAll(stream)
        read == [stream EXCEPT !.pos = r.pos]
    IN /\ pc = "read"
       /\ body' = input.Body
       /\ input' = BodyAfterRead(input, r)
       /\ IF r.err
          THEN /\ Return(ResponseError(ReasonRead, <<"read">>), input.Body, read)
               /\ UNCHANGED data
          ELSE /\ data' = r.data
               /\ stream' = read
               /\ pc' = "decode"
               /\ UNCHANGED err
       /\ UNCHANGED <<ctxDone, options, response, opts, contentType, value>>

DecodeBody ==
    LET d == decodeBody(data)
    IN /\ pc = "decode"
       /\ IF d.err
          THEN /\ Return(ResponseError(ReasonDecode, <<"decode">>), body, stream)
               /\ UNCHANGED value
          ELSE /\ value' = d.value
               /\ pc' = "schema"
               /\ UNCHANGED <<err, stream>>
       /\ UNCHANGED <<ctxDone, input, options, response, opts, contentType, body, data>>

\* The verdict of the body's schema check.
BodyVerdict(ct, v, o) ==
    LET e == VisitJSON(ct.Schema.Value, v, o \cup {"VisitAsResponse"})
    IN IF e # <<>>
       THEN ResponseError(
                ReasonBodySchema \o prependSpaceIfNeeded(getSchemaIdentifier(ct.Schema)), e)
       ELSE Nil

ValidateBody ==
    /\ pc = "schema"
    /\ Return(BodyVerdict(contentType, value, opts), body, stream)
    /\ UNCHANGED <<ctxDone, input, locals>>

\* The caller cancels the call context while the call is running (before its
\* first stage or between two stages). No stage reads ctx.
CancelCtx ==
    /\ pc # "done"
    /\ ~ctxDone
    /\ ctxDone' = TRUE
    /\ UNCHANGED <<input, stream, pc, locals, err>>

Next ==
    \/ EligibilityFilter
    \/ ResolveResponse
    \/ ValidateHeaders
    \/ NegotiateContent
    \/ ReadBody
    \/ DecodeBody
    \/ ValidateBody
    \/ CancelCtx

\* ------------------------------------------------------------------------
\* The calls explored: inputs as the caller and the loaded contract supply them
\* ------------------------------------------------------------------------
\* The request, its route and the route's operation are present; the header
\* and schema references of a response definition are resolved (response
\* references may dangle); observed header names are in canonical form and
\* the body is a stream, never nil, as net/http delivers them. Strings are
\* printable ASCII.

\* "X-B"
NameXB == <<88, 45, 66>>
\* "x-a"
NameXa == <<120, 45, 97>>
\* "content-type"
NameLowerCT == <<99, 111, 110, 116, 101, 110, 116, 45, 116, 121, 112, 101>>
\* "X-A"
KeyXA == <<88, 45, 65>>
\* "200"
Key200 == <<50, 48, 48>>
\* "application/json"
MimeJSON == <<97, 112, 112, 108, 105, 99, 97, 116, 105, 111, 110, 47, 106, 115, 111, 110>>
\* "application/xml"
MimeXML == <<97, 112, 112, 108, 105, 99, 97, 116, 105, 111, 110, 47, 120, 109, 108>>
\* "application/json; charset=utf-8"
MimeJSONCharset == <<97, 112, 112, 108, 105, 99, 97, 116, 105, 111, 110, 47, 106, 115, 111, 110, 59, 32, 99, 104, 97, 114, 115, 101, 116, 61, 117, 116, 102, 45, 56>>
\* the text text/plain; charset="utf-8"
MimeQuotedCharset == <<116, 101, 120, 116, 47, 112, 108, 97, 105, 110, 59, 32, 99, 104, 97, 114, 115, 101, 116, 61, 34, 117, 116, 102, 45, 56, 34>>
\* "application/*"
MimeAppAny == <<97, 112, 112, 108, 105, 99, 97, 116, 105, 111, 110, 47, 42>>
\* "ok"
ValOk == <<111, 107>>
\* "o"
ValShort == <<111>>
\* "b"
ValBad == <<98>>
\* the text "ok"
BytesOk == <<34, 111, 107, 34>>
\* the text "o"
BytesShort == <<34, 111, 34>>
\* the text "b"
BytesBad == <<34, 98, 34>>
\* "7"
BytesInt == <<55>>
\* "{"
BytesJunk == <<123>>
\* "#/components/schemas/Pet"
RefPet == <<35, 47, 99, 111, 109, 112, 111, 110, 101, 110, 116, 115, 47, 115, 99, 104, 101, 109, 97, 115, 47, 80, 101, 116>>
\* "#/components/responses/Missing"
RefMissing == <<35, 47, 99, 111, 109, 112, 111, 110, 101, 110, 116, 115, 47, 114, 101, 115, 112, 111, 110, 115, 101, 115, 47, 77, 105, 115, 115, 105, 110, 103>>
\* " Pet "
TitlePadded == <<32, 80, 101, 116, 32>>

\* The functions from a subset of Ks to Vs: the maps with keys among Ks.
MapsOver(Ks, Vs) == UNION {[D -> Vs] : D \in SUBSET Ks}

\* The map holding the entries of f and, for the other keys, those of g.
Merge(f, g) ==
    [k \in (DOMAIN f) \cup (DOMAIN g) |-> IF k \in DOMAIN f THEN f[k] ELSE g[k]]

\* A string schema: at least two bytes, starting with "o".
StringSchema == [Title |-> TitlePadded, Type |-> "string", MinLength |-> 2, Prefix |-> 111]

\* The same schema without a title.
UntitledSchema == [StringSchema EXCEPT !.Title = <<>>]

\* Schema references: declared inline, and by reference.
InlineSchema == [Ref |-> <<>>, Value |-> StringSchema]
AnonymousSchema == [Ref |-> <<>>, Value |-> UntitledSchema]
NamedSchema == [Ref |-> RefPet, Value |-> StringSchema]

\* A declared header.
HeaderDecl(required) == [Value |-> [Required |-> required, Schema |-> InlineSchema]]

\* A media type entry; its schema may be missing.
MediaType(schema) == [Schema |-> schema]

\* A response reference: resolved to a definition, or left dangling.
Resolved(resp) == [Ref |-> <<>>, Value |-> resp]
Unresolved == [Ref |-> RefMissing, Value |-> Nil]

\* No entry under a key of the response table.
Absent == [absent |-> TRUE]

\* The response table with entry e for status 200 and entry d for "default".
Table(e, d) ==
    [k \in (IF e = Absent THEN {} ELSE {Key200}) \cup (IF d = Absent THEN {} ELSE {KeyDefault})
        |-> IF k = Key200 THEN e ELSE d]

\* A response definition.
Response(headers, content) == [Headers |-> headers, Content |-> content]

Methods == {"GET", "HEAD"}
Statuses == {200, 301, 304, 307, 308, 404}

\* The options a caller may pass: none, or any setting of the switches; and
\* one setting with a custom error message function.
OptionsAll ==
    {Nil}
    \cup [IncludeResponseStatus : BOOLEAN, ExcludeResponseBody : BOOLEAN,
          MultiError : BOOLEAN, customSchemaErrorFunc : {Nil}]
    \cup {[DefaultOptions EXCEPT !.customSchemaErrorFunc = [func |-> TRUE]]}

\* Fresh body streams over the given contents: sound ones, and ones that fail
\* after delivering at most MaxFailAt bytes.
Streams(contents) ==
    UNION {{[data |-> d, failAt |-> f, pos |-> 0, closed |-> FALSE] :
                f \in {x \in (-1)..MaxFailAt : x <= Len(d)}} : d \in contents}

MakeInput(m, st, o, t, h) ==
    [Method |-> m, Status |-> st, Options |-> o, Responses |-> t, Header |-> h,
     Body |-> TheStream]

\* Two response definitions that differ in headers and content.
ResponseA ==
    Response([k \in {NameXB} |-> HeaderDecl(TRUE)], [k \in {MimeJSON} |-> MediaType(InlineSchema)])
ResponseB ==
    Response([k \in {NameXa} |-> HeaderDecl(TRUE)], [k \in {MimeAny} |-> MediaType(NamedSchema)])

\* Calls that vary method, status, options and the response table.
ResolverCalls ==
    {[input |-> MakeInput(m, st, o, Table(e, d), h), stream |-> s] :
        m \in Methods, st \in Statuses, o \in OptionsAll,
        e \in {Absent, Unresolved, Resolved(ResponseA)},
        d \in {Absent, Unresolved, Resolved(ResponseB)},
        h \in {[k \in {} |-> <<>>],
               [k \in {headerCT, NameXB, KeyXA} |-> IF k = headerCT THEN MimeJSON ELSE ValOk]},
        s \in Streams({BytesOk, BytesBad})}

\* Calls that vary the declared and the observed headers.
HeaderCalls ==
    {[input |-> MakeInput("GET", 200, o,
                    Table(Resolved(Response(Merge(decl, declCT),
                                            [k \in {MimeJSON} |-> MediaType(InlineSchema)])),
                          Absent),
                    Merge(Merge(hb, ha), hc)),
      stream |-> s] :
        o \in {x \in OptionsAll : x = Nil \/ ~x.IncludeResponseStatus},
        decl \in MapsOver({NameXB, NameXa}, {HeaderDecl(TRUE), HeaderDecl(FALSE)}),
        declCT \in MapsOver({headerCT}, {HeaderDecl(TRUE)})
                   \cup MapsOver({NameLowerCT}, {HeaderDecl(TRUE)}),
        hb \in MapsOver({NameXB}, {ValOk, ValBad}),
        ha \in MapsOver({KeyXA}, {<<>>, ValOk, ValShort, ValBad}),
        hc \in MapsOver({headerCT}, {MimeJSON}),
        s \in Streams({BytesOk})}

\* Calls that vary the declared content, the observed Content-Type and the body.
BodyCalls ==
    {[input |-> MakeInput("GET", 200, o,
                    Table(Resolved(Response(decl, content)), Absent),
                    hc),
      stream |-> s] :
        o \in OptionsAll,
        decl \in MapsOver({NameXB}, {HeaderDecl(FALSE)}),
        content \in MapsOver({MimeJSON}, {MediaType(InlineSchema), MediaType(Nil)})
                    \cup {[k \in {MimeJSON, MimeAny} |->
                              IF k = MimeJSON THEN MediaType(NamedSchema)
                              ELSE MediaType(AnonymousSchema)],
                          [k \in {MimeAppAny} |-> MediaType(AnonymousSchema)]},
        hc \in MapsOver({headerCT},
                        {MimeJSON, MimeJSONCharset, MimeXML, MimeQuotedCharset}),
        s \in Streams({<<>>, BytesOk, BytesShort, BytesBad, BytesInt, BytesJunk})}

Calls == ResolverCalls \cup HeaderCalls \cup BodyCalls

Init ==
    /\ \E c \in Calls : input = c.input /\ stream = c.stream
    /\ ctxDone = FALSE
    /\ pc = "eligibility"
    /\ options = Nil
    /\ response = Nil
    /\ opts = {}
    /\ contentType = Nil
    /\ body = Nil
    /\ data = <<>>
    /\ value = Nil
    /\ err = Nil

Spec == Init /\ [][Next]_vars

\* ------------------------------------------------------------------------
\* Vocabulary of the properties
\* ------------------------------------------------------------------------

HasPrefix(s, p) == Len(s) >= Len(p) /\ SubSeq(s, 1, Len(p)) = p
HasSuffix(s, p) == Len(s) >= Len(p) /\ SubSeq(s, Len(s) - Len(p) + 1, Len(s)) = p

\* The failure kinds, read off the returned error.
IsUndocumentedStatus(e) == e # Nil /\ e.Reason = ReasonStatus
IsUnresolvedResponse(e) == e # Nil /\ e.Reason = ReasonUnresolved
IsMissingHeader(e) ==
    e # Nil /\ HasPrefix(e.Reason, ReasonHeaderPrefix) /\ HasSuffix(e.Reason, ReasonMissingSuffix)
IsHeaderSchemaMismatch(e) ==
    e # Nil /\ HasPrefix(e.Reason, ReasonHeaderPrefix)
            /\ HasSuffix(e.Reason, ReasonHeaderSchemaSuffix)
IsUnsupportedContentType(e) == e # Nil /\ HasPrefix(e.Reason, ReasonCTPrefix)
IsBodyReadFailure(e) == e # Nil /\ e.Reason = ReasonRead
IsBodyDecodeFailure(e) == e # Nil /\ e.Reason = ReasonDecode
IsBodySchemaMismatch(e) == e # Nil /\ HasPrefix(e.Reason, ReasonBodySchema)

\* The call has returned.
Done == pc = "done"

\* The call is exempt from validation, in the words of the eligibility filter.
Exempt == input.Method = "HEAD" \/ input.Status \in {301, 304, 307, 308}

\* The switches in force, the defaults (all off) when no options are supplied.
IncludeFlag == input.Options # Nil /\ input.Options.IncludeResponseStatus
ExcludeFlag == input.Options # Nil /\ input.Options.ExcludeResponseBody
MultiFlag == input.Options # Nil /\ input.Options.MultiError

\* What reading a body stream before the call would have yielded.
OriginalRead ==
    LET r == ReadAll([stream EXCEPT !.pos = 0, !.closed = FALSE])
    IN [data |-> r.data, err |-> r.err]

\* What reading input.Body yields now; Nil when there is no body to read.
LaterRead ==
    IF input.Body = Nil THEN Nil
    ELSE IF input.Body = TheStream
    THEN [data |-> ReadAll(stream).data, err |-> ReadAll(stream).err]
    ELSE [data |-> input.Body.bytes, err |-> FALSE]

\* The body stream is as it arrived: not read, not replaced, not closed.
BodyUntouched ==
    input.Body = TheStream /\ stream.pos = 0 /\ ~stream.closed /\ body = Nil

\* ------------------------------------------------------------------------
\* C1
\* ------------------------------------------------------------------------

\* C1: once the call has returned, with success or with any failure, reading
\* the response's body yields exactly what the body held before the call.
C1_BodyRoundTrip == Done => LaterRead = OriginalRead

\* The same, for the calls that did not fail to read the body stream.
C1_RoundTripUnlessReadFails ==
    (Done /\ ~IsBodyReadFailure(err)) => LaterRead = OriginalRead

\* After a read failure the body field is left nil.
C1_ReadFailureLeavesNil == (Done /\ IsBodyReadFailure(err)) => input.Body = Nil

\* ------------------------------------------------------------------------
\* C2
\* ------------------------------------------------------------------------

\* C2: whenever the call has acquired the body stream for reading, the stream
\* is closed once the call has returned, whatever the exit: read failure,
\* decode failure, schema mismatch or success.
C2_AcquiredStreamClosed == (Done /\ body # Nil) => stream.closed

\* The call acquired the stream, failed to read it, and returned with the
\* stream closed.
C2_Witness == Done /\ body # Nil /\ IsBodyReadFailure(err) /\ stream.closed

\* ------------------------------------------------------------------------
\* C3
\* ------------------------------------------------------------------------

\* The response table is not empty and holds neither an entry for the observed
\* status nor a default entry.
Undocumented ==
    /\ DOMAIN input.Responses # {}
    /\ FormatInt(input.Status) \notin DOMAIN input.Responses
    /\ KeyDefault \notin DOMAIN input.Responses

\* C3: a non-exempt call with an undocumented status succeeds when
\* includeUndocumentedStatusAsError is off (also when no options are supplied)
\* and fails with UndocumentedStatus when it is on, whatever headers and body.
C3_UndocumentedStatus ==
    (Done /\ ~Exempt /\ Undocumented) =>
        IF IncludeFlag THEN IsUndocumentedStatus(err) ELSE err = Nil

\* An undocumented status was rejected because the switch is on.
C3_Witness ==
    Done /\ ~Exempt /\ Undocumented /\ IncludeFlag /\ IsUndocumentedStatus(err)

\* ------------------------------------------------------------------------
\* C5
\* ------------------------------------------------------------------------

\* The entry that applies to the observed status (the exact one, the default
\* one when there is no exact one) is a dangling reference.
DanglingEntry ==
    LET k == FormatInt(input.Status)
        t == input.Responses
    IN \/ k \in DOMAIN t /\ t[k].Value = Nil
       \/ k \notin DOMAIN t /\ KeyDefault \in DOMAIN t /\ t[KeyDefault].Value = Nil

\* C5: a non-exempt call whose applicable response entry is a dangling
\* reference fails with UnresolvedResponse, whatever headers, body and options.
C5_UnresolvedResponse == (Done /\ ~Exempt /\ DanglingEntry) => IsUnresolvedResponse(err)

\* The default entry was dangling, no exact entry existed, and the call failed
\* with UnresolvedResponse although body validation was excluded.
C5_Witness ==
    /\ Done /\ ~Exempt /\ DanglingEntry
    /\ FormatInt(input.Status) \notin DOMAIN input.Responses
    /\ ExcludeFlag
    /\ IsUnresolvedResponse(err)

\* ------------------------------------------------------------------------
\* C6
\* ------------------------------------------------------------------------

\* C6: with excludeBodyValidation on, the call never returns BodyReadFailure,
\* BodyDecodeFailure or BodySchemaMismatch, and never touches the body.
C6_ExcludedBodyNeverFails ==
    (Done /\ ExcludeFlag) =>
        /\ ~IsBodyReadFailure(err)
        /\ ~IsBodyDecodeFailure(err)
        /\ ~IsBodySchemaMismatch(err)
        /\ BodyUntouched

\* Body validation was excluded for a response whose declared content matches
\* the observed Content-Type and whose body stream would have failed to read;
\* the call succeeded.
C6_Witness ==
    /\ Done /\ ExcludeFlag /\ err = Nil
    /\ response # Nil
    /\ ContentGet(response.Content, HeaderGet(input.Header, headerCT)) # Nil
    /\ ContentGet(response.Content, HeaderGet(input.Header, headerCT)).Schema # Nil
    /\ stream.failAt >= 0

\* ------------------------------------------------------------------------
\* C9
\* ------------------------------------------------------------------------

\* C9: an exempt call (method HEAD, or status 301, 304, 307 or 308) returns
\* success at the eligibility filter with the body untouched and no later
\* stage run; a call that is not exempt always goes on to the resolver.
C9_EligibilityFilter ==
    /\ (Done /\ Exempt) => (err = Nil /\ BodyUntouched /\ options = Nil)
    /\ (Done /\ ~Exempt) => options # Nil
    /\ pc \notin {"eligibility", "done"} => ~Exempt

\* A GET answered 308 returned success although its response entry is dangling
\* and its body stream broken.
C9_Witness ==
    /\ Done /\ input.Method = "GET" /\ input.Status = 308
    /\ KeyDefault \in DOMAIN input.Responses /\ input.Responses[KeyDefault].Value = Nil
    /\ stream.failAt >= 0
    /\ err = Nil /\ BodyUntouched

\* ------------------------------------------------------------------------
\* C4
\* ------------------------------------------------------------------------

\* Header k is declared required by the resolved response definition and is
\* absent from the observed response.
RequiredAndAbsent(k) ==
    /\ response.Headers[k].Value.Required
    /\ CanonicalMIMEHeaderKey(k) \notin DOMAIN input.Header

\* The error is MissingHeader for header k: its message quotes the name.
MissingHeaderNaming(k) ==
    err # Nil /\ err.Reason = ReasonHeaderPrefix \o Quote(k) \o ReasonMissingSuffix

\* Declared header k passes its own check: absent (or empty) and optional, or
\* present with a value that matches its schema.
HeaderPasses(k) ==
    LET h == HeaderGet(input.Header, k)
    IN IF h = <<>> THEN ~response.Headers[k].Value.Required
       ELSE Leaves(response.Headers[k].Value.Schema.Value, StringValue(h)) = <<>>

\* C4 as stated: for every declared required header that is absent, a
\* non-exempt call fails with MissingHeader naming that header, whatever other
\* headers are declared or observed and whatever the body.
C4_MissingRequiredHeader ==
    (Done /\ ~Exempt /\ response # Nil) =>
        \A k \in DOMAIN response.Headers :
            RequiredAndAbsent(k) =>
                (IsMissingHeader(err) /\ Contains(err.Reason, k))

\* C4 as amended: for a declared required header that is absent, whose
\* declared name is not exactly Content-Type and before which (in bytewise name
\* order, Content-Type aside) every declared header passes its own check, a
\* non-exempt call fails with MissingHeader naming that header, whatever the
\* body.
C4_FirstMissingRequiredHeader ==
    (Done /\ ~Exempt /\ response # Nil) =>
        \A k \in DOMAIN response.Headers :
            (/\ RequiredAndAbsent(k)
             /\ k # headerCT
             /\ \A k2 \in DOMAIN response.Headers :
                    (k2 # headerCT /\ StrLess(k2, k)) => HeaderPasses(k2))
            => (MissingHeaderNaming(k) /\ BodyUntouched)

\* Two headers are declared required; the one that sorts first is present and
\* valid, the second is absent, and the failure names the second.
C4_Witness ==
    /\ Done /\ ~Exempt /\ response # Nil
    /\ {NameXB, NameXa} \subseteq DOMAIN response.Headers
    /\ response.Headers[NameXB].Value.Required
    /\ HeaderPasses(NameXB)
    /\ RequiredAndAbsent(NameXa)
    /\ MissingHeaderNaming(NameXa)

\* ------------------------------------------------------------------------
\* C7
\* ------------------------------------------------------------------------

\* The observed Content-Type header value, as the negotiator reads it.
ObservedContentType == HeaderGet(input.Header, headerCT)

\* Header validation has passed, body validation is not excluded, content
\* entries are declared, and the observed Content-Type matches none of them.
NoContentMatch ==
    /\ ~Exempt
    /\ response # Nil
    /\ \A k \in DOMAIN response.Headers : k # headerCT => HeaderPasses(k)
    /\ ~ExcludeFlag
    /\ DOMAIN response.Content # {}
    /\ ContentGet(response.Content, ObservedContentType) = Nil

\* C7 as stated: in that case the call fails with UnsupportedContentType, the
\* message contains the observed Content-Type value verbatim, and the body
\* stream is not consumed.
C7_UnsupportedContentTypeVerbatim ==
    (Done /\ NoContentMatch) =>
        /\ IsUnsupportedContentType(err)
        /\ Contains(err.Reason, ObservedContentType)
        /\ BodyUntouched

\* The value holds no byte that %q escapes (the model's values are printable
\* ASCII: only the double quote and the backslash).
NeedsNoEscape(v) == \A i \in 1..Len(v) : v[i] \notin {34, 92}

\* C7 as amended: in that case the call fails with UnsupportedContentType, the
\* message ends with the observed Content-Type value as %q renders it (in
\* double quotes, with double quotes and backslashes escaped), so it contains
\* the value verbatim exactly when the value needs no escaping; the body
\* stream is not consumed.
C7_UnsupportedContentTypeQuoted ==
    (Done /\ NoContentMatch) =>
        /\ err # Nil
        /\ err.Reason = ReasonCTPrefix \o Quote(ObservedContentType)
        /\ err.Err = <<>>
        /\ NeedsNoEscape(ObservedContentType) <=> Contains(err.Reason, ObservedContentType)
        /\ BodyUntouched

\* A Content-Type with a quoted parameter matched no declared entry; the
\* failure message holds the value with its quotes escaped.
C7_Witness ==
    /\ Done /\ NoContentMatch
    /\ ObservedContentType = MimeQuotedCharset
    /\ IsUnsupportedContentType(err)
    /\ HasSuffix(err.Reason, Quote(MimeQuotedCharset))

\* ------------------------------------------------------------------------
\* C8
\* ------------------------------------------------------------------------

\* C8 as stated: every failure of a kind other than BodySchemaMismatch carries
\* at most one cause, whether multiError is set or not.
C8_OnlyBodySchemaMultiCause ==
    (Done /\ err # Nil /\ ~IsBodySchemaMismatch(err)) => Len(err.Err) <= 1

\* The error is HeaderSchemaMismatch for a declared header and carries every
\* leaf violation of that header's value.
HeaderFailureCarriesAllLeaves ==
    \E k \in DOMAIN response.Headers :
        /\ err.Reason = ReasonHeaderPrefix \o Quote(k) \o ReasonHeaderSchemaSuffix
        /\ err.Err = Leaves(response.Headers[k].Value.Schema.Value,
                            StringValue(HeaderGet(input.Header, k)))

\* C8 as amended: multiError is applied to both schema checks, of header
\* values and of the body. A failure of any kind other than
\* HeaderSchemaMismatch and BodySchemaMismatch carries at most one cause; so
\* does every failure when multiError is off; with multiError on, a
\* HeaderSchemaMismatch carries every leaf violation of the header value and a
\* BodySchemaMismatch every leaf violation of the body.
C8_MultiErrorOnBothSchemaChecks ==
    (Done /\ err # Nil) =>
        /\ (~IsHeaderSchemaMismatch(err) /\ ~IsBodySchemaMismatch(err)) => Len(err.Err) <= 1
        /\ ~MultiFlag => Len(err.Err) <= 1
        /\ (MultiFlag /\ IsHeaderSchemaMismatch(err)) => HeaderFailureCarriesAllLeaves
        /\ (MultiFlag /\ IsBodySchemaMismatch(err)) =>
               err.Err = Leaves(contentType.Schema.Value, value)

\* With multiError on, a header value with two leaf violations failed with a
\* HeaderSchemaMismatch that carries both.
C8_Witness ==
    Done /\ MultiFlag /\ IsHeaderSchemaMismatch(err) /\ Len(err.Err) = 2

\* ------------------------------------------------------------------------
\* C10
\* ------------------------------------------------------------------------

IsCancellation(e) == e # Nil /\ e.Reason = ContextCanceled

\* C10 as stated: a call whose context was cancelled before the call or
\* between two stages returns a cancellation failure.
C10_CancelledCallAborts == (Done /\ ctxDone) => IsCancellation(err)

\* The verdict of the stages run in order on the input as it arrived.
StagesVerdict ==
    LET o == IF input.Options = Nil THEN DefaultOptions ELSE input.Options
        r == Resolve(input.Responses, input.Status, o)
        h == CheckHeaders(r.response, input.Header, SchemaOpts(o), HeaderOrder(r.response))
        n == Negotiate(r.response, input.Header, o)
        rd == ReadAll([stream EXCEPT !.pos = 0, !.closed = FALSE])
        d == decodeBody(rd.data)
    IN IF SkipsValidation(input.Method, input.Status) THEN Nil
       ELSE IF r.ret THEN r.err
       ELSE IF h # Nil THEN h
       ELSE IF n.ret THEN n.err
       ELSE IF rd.err THEN ResponseError(ReasonRead, <<"read">>)
       ELSE IF d.err THEN ResponseError(ReasonDecode, <<"decode">>)
       ELSE BodyVerdict(n.contentType, d.value, SchemaOpts(o))

\* C10 as amended: the call never reads its context. A call whose context was
\* cancelled before the call or between two stages still runs every remaining
\* stage and returns their verdict, never a cancellation failure.
C10_CancellationIgnored ==
    (Done /\ ctxDone) => (~IsCancellation(err) /\ err = StagesVerdict)

\* A call whose context was cancelled while it ran went on to the last stage
\* and returned its BodySchemaMismatch.
C10_Witness == Done /\ ctxDone /\ IsBodySchemaMismatch(err)

\* ------------------------------------------------------------------------
\* C11
\* ------------------------------------------------------------------------

\* The response table has an entry for the exact observed status.
HasExact == FormatInt(input.Status) \in DOMAIN input.Responses

\* The response table has a default entry.
HasDefault == KeyDefault \in DOMAIN input.Responses

\* C11: the response definition the call checks is the entry for the exact
\* observed status whenever there is one, also beside a default entry; the
\* default entry only when there is no exact one; none when both are missing.
\* A dangling exact entry is reported, never replaced by the default entry.
C11_LookupPrecedence ==
    /\ (response # Nil /\ HasExact) =>
           response = input.Responses[FormatInt(input.Status)].Value
    /\ (response # Nil /\ ~HasExact) =>
           (HasDefault /\ response = input.Responses[KeyDefault].Value)
    /\ (Done /\ ~Exempt /\ ~HasExact /\ ~HasDefault) =>
           (response = Nil /\ (err = Nil \/ IsUndocumentedStatus(err)))
    /\ (Done /\ ~Exempt /\ HasExact
              /\ input.Responses[FormatInt(input.Status)].Value = Nil) =>
           (response = Nil /\ IsUnresolvedResponse(err))

\* The table holds an exact entry and a different default entry, the observed
\* response lacks the required header of each, and the failure names the
\* header the exact entry declares.
C11_Witness ==
    /\ Done /\ ~Exempt /\ HasExact /\ HasDefault
    /\ input.Responses[KeyDefault].Value = ResponseB
    /\ response = ResponseA
    /\ CanonicalMIMEHeaderKey(NameXa) \notin DOMAIN input.Header
    /\ err # Nil
    /\ err.Reason = ReasonHeaderPrefix \o Quote(NameXB) \o ReasonMissingSuffix

\* ------------------------------------------------------------------------
\* C12
\* ------------------------------------------------------------------------

\* The declared headers that header validation would report: all but the one
\* named Content-Type that do not pass their own check.
FailingHeaders ==
    {k \in DOMAIN response.Headers : k # headerCT /\ ~HeaderPasses(k)}

\* The failing header whose name is smallest in bytewise lexicographic order.
FirstFailingHeader ==
    CHOOSE k \in FailingHeaders : \A y \in FailingHeaders \ {k} : StrLess(k, y)

\* The error is the failure of header k alone: MissingHeader when its value is
\* absent or empty, else HeaderSchemaMismatch with the causes of that value.
FailureOfHeader(k) ==
    LET h == HeaderGet(input.Header, k)
        leaves == Leaves(response.Headers[k].Value.Schema.Value, StringValue(h))
    IN /\ err # Nil
       /\ IF h = <<>>
          THEN /\ err.Reason = ReasonHeaderPrefix \o Quote(k) \o ReasonMissingSuffix
               /\ err.Err = <<>>
          ELSE /\ err.Reason = ReasonHeaderPrefix \o Quote(k) \o ReasonHeaderSchemaSuffix
               /\ err.Err = IF MultiFlag THEN leaves ELSE <<leaves[1]>>

\* C12: when one or more declared headers fail, the call returns the single
\* failure of the failing header whose name is lexicographically smallest,
\* with multiError on or off, and performs no content-type or body check.
C12_FirstFailingHeaderInNameOrder ==
    (Done /\ ~Exempt /\ response # Nil /\ FailingHeaders # {}) =>
        /\ FailureOfHeader(FirstFailingHeader)
        /\ contentType = Nil
        /\ BodyUntouched

\* With multiError on, the declared headers X-B and x-a both fail and the
\* failure is that of X-B, which sorts first bytewise.
C12_Witness ==
    /\ Done /\ ~Exempt /\ response # Nil /\ MultiFlag
    /\ {NameXB, NameXa} \subseteq FailingHeaders
    /\ FirstFailingHeader = NameXB
    /\ FailureOfHeader(NameXB)

\* ------------------------------------------------------------------------
\* C13
\* ------------------------------------------------------------------------

\* Name k is a spelling of the content-type header: it differs from
\* "Content-Type" in letter case at most.
IsContentTypeName(k) == CanonicalMIMEHeaderKey(k) = headerCT

\* The error is a MissingHeader or a HeaderSchemaMismatch for header k.
HeaderFailureNaming(k) ==
    /\ err # Nil
    /\ \/ err.Reason = ReasonHeaderPrefix \o Quote(k) \o ReasonMissingSuffix
       \/ err.Reason = ReasonHeaderPrefix \o Quote(k) \o ReasonHeaderSchemaSuffix

\* C13: a header declared under any spelling of the content-type header name
\* never causes a MissingHeader or a HeaderSchemaMismatch for that header.
C13_ContentTypeExcludedAnyCase ==
    (Done /\ response # Nil) =>
        \A k \in DOMAIN response.Headers :
            IsContentTypeName(k) => ~HeaderFailureNaming(k)

\* The same for the one spelling the code compares with, "Content-Type".
C13_ContentTypeExcludedExactCase ==
    (Done /\ response # Nil) =>
        (headerCT \in DOMAIN response.Headers => ~HeaderFailureNaming(headerCT))

====
